---- MODULE Spec2Model ----
(***************************************************************************)
(* Model of src/src/utf8.rs: the incremental UTF-8 decoders CharBuffer and *)
(* CharIndicesBuffer reading from an abstract byte source (std::io::Read). *)
(*                                                                         *)
(* A byte source is a finite script of read outcomes (`input`) followed by *)
(* end-of-input for ever; `inner` is the source handle: the position in    *)
(* the script and the number of reads the latest call of next issued.      *)
(***************************************************************************)
EXTENDS Integers, Sequences, FiniteSets, TLC

VARIABLES
    input,    \* the script of the byte source: what each read will return
    chars,    \* the scalar values `input` was encoded from (round-trip runs)
    start,    \* the state tuple the first decoder was constructed from
    phase,    \* "src": a bare source; "state": an extracted state tuple;
              \* "live": a decoder exists; "panicked": an assertion failed
    inner,    \* CharBuffer.inner: [pos, reads]
    buf,      \* CharBuffer.buf: [u8; 4]
    bsz,      \* CharBuffer.bsz
    eof,      \* CharBuffer.eof
    err,      \* CharBuffer.err
    off,      \* CharIndicesBuffer.off
    saved,    \* the tuple held by the caller between into_ and from_reader_state
    results,  \* every value returned by CharIndicesBuffer::next so far
    born,     \* Len(results) when the current decoder instance was constructed
    panic     \* which assertion failed, "" if none

vars == <<input, chars, start, phase, inner, buf, bsz, eof, err, off,
          saved, results, born, panic>>

-----------------------------------------------------------------------------
(* Bounds *)

MaxLen == 4          \* longest source script of Spec
MaxLenState == 1     \* longest source script of SpecState
MaxChars == 3        \* longest scalar sequence of SpecRT
MaxCalls == 5        \* most produce-next calls in one run
MaxPre == 2          \* most bytes delivered before the fault in SpecFault

\* Bytes the scripts of Spec are built from: ASCII, continuation, and the
\* lead bytes of 2- and 4-byte sequences.
ByteSet == {65, 128, 194, 241}

\* Bytes of the saved buffers of SpecState: 0xF0 gives a well-formed sequence
\* with 0xA0 as second byte and an overlong one with 0x80.
ByteSetState == {65, 128, 160, 240}

\* Bytes of the saved buffers of SpecFault: ASCII, and a two-byte scalar
ByteSetFault == {65, 128, 194}

\* Offsets the saved states of SpecState carry
StartOffs == {3}

\* Scalars of the round-trip runs: the ends of each encoded-length class.
ScalarSet == {65, 127, 128, 2047, 2048, 65535, 65536, 1114111}

-----------------------------------------------------------------------------
(* Bit and UTF-8 arithmetic used by the decoder *)

\* `this as i8`
AsI8(b) == IF b >= 128 THEN b - 256 ELSE b

\* Variant: the comparison is strict, so 0xC0 counts as a continuation byte.
is_utf8_char_boundary_strict(this) == AsI8(this) > -64

is_utf8_char_boundary(this) == AsI8(this) >= -64

\* core::str UTF8_CHAR_WIDTH
utf8_char_width(b) ==
    IF b < 128 THEN 1
    ELSE IF b >= 194 /\ b <= 223 THEN 2
    ELSE IF b >= 224 /\ b <= 239 THEN 3
    ELSE IF b >= 240 /\ b <= 244 THEN 4
    ELSE 0

IsCont(b) == b >= 128 /\ b <= 191

\* One step of core::str::from_utf8's validation: the number of bytes of the
\* well-formed sequence at the head of s, or 0 if there is none.
ValidHead(s) ==
    LET first == s[1]
        w == utf8_char_width(first)
    IN  IF w = 0 \/ Len(s) < w THEN 0
        ELSE IF w = 1 THEN 1
        ELSE IF w = 2 THEN (IF IsCont(s[2]) THEN 2 ELSE 0)
        ELSE IF w = 3 THEN
            IF /\ \/ first = 224 /\ s[2] >= 160 /\ s[2] <= 191
                  \/ first >= 225 /\ first <= 236 /\ IsCont(s[2])
                  \/ first = 237 /\ s[2] >= 128 /\ s[2] <= 159
                  \/ first >= 238 /\ first <= 239 /\ IsCont(s[2])
               /\ IsCont(s[3])
            THEN 3 ELSE 0
        ELSE
            IF /\ \/ first = 240 /\ s[2] >= 144 /\ s[2] <= 191
                  \/ first >= 241 /\ first <= 243 /\ IsCont(s[2])
                  \/ first = 244 /\ s[2] >= 128 /\ s[2] <= 143
               /\ IsCont(s[3])
               /\ IsCont(s[4])
            THEN 4 ELSE 0

RECURSIVE from_utf8(_)
\* core::str::from_utf8(s).is_ok()
from_utf8(s) ==
    IF s = << >> THEN TRUE
    ELSE LET n == ValidHead(s)
         IN  n # 0 /\ from_utf8(SubSeq(s, n + 1, Len(s)))

\* s.chars().next().unwrap() for a validated non-empty s
first_char(s) ==
    LET x == s[1] IN
    IF x < 128 THEN x
    ELSE IF x < 224 THEN (x % 32) * 64 + (s[2] % 64)
    ELSE IF x < 240 THEN (x % 16) * 4096 + (s[2] % 64) * 64 + (s[3] % 64)
    ELSE (x % 8) * 262144 + (s[2] % 64) * 4096 + (s[3] % 64) * 64 + (s[4] % 64)

\* char::len_utf8
len_utf8(c) ==
    IF c < 128 THEN 1
    ELSE IF c < 2048 THEN 2
    ELSE IF c < 65536 THEN 3
    ELSE 4

\* char::encode_utf8
encode_utf8(c) ==
    IF c < 128 THEN <<c>>
    ELSE IF c < 2048 THEN <<192 + (c \div 64), 128 + (c % 64)>>
    ELSE IF c < 65536 THEN
        <<224 + (c \div 4096), 128 + ((c \div 64) % 64), 128 + (c % 64)>>
    ELSE <<240 + (c \div 262144), 128 + ((c \div 4096) % 64),
           128 + ((c \div 64) % 64), 128 + (c % 64)>>

-----------------------------------------------------------------------------
(* The byte source *)

OneByte(b) == [k |-> "one", b |-> b]     \* Ok(1), b written to the slot
ReadErr == [k |-> "err", b |-> 0]        \* Err(_)
ReadMany == [k |-> "many", b |-> 0]      \* Ok(n) with n > 1
ReadZero == [k |-> "zero", b |-> 0]      \* Ok(0) although more will follow

\* inner.read(&mut buf[i .. i + 1]): the outcome and the source afterwards.
\* Past the end of the script every read returns Ok(0).
Read(src) ==
    IF src.pos > Len(input)
    THEN [out |-> ReadZero, src |-> [src EXCEPT !.reads = @ + 1]]
    ELSE [out |-> input[src.pos],
          src |-> [pos |-> src.pos + 1, reads |-> src.reads + 1]]

-----------------------------------------------------------------------------
(* CharBuffer *)

\* `let x = v; F(x)`: v is evaluated once, before F, as in Rust
Let(v, F(_)) == CHOOSE r \in {F(x) : x \in {v}} : TRUE

\* A CharBuffer value.  buf is the 4-slot array, slot j of the code is
\* buf[j + 1].
CharBuffer(inner_, buf_, bsz_, eof_, err_) ==
    [inner |-> inner_, buf |-> buf_, bsz |-> bsz_, eof |-> eof_, err |-> err_]

ZeroBuf == <<0, 0, 0, 0>>

\* What CharBuffer::next returns, with the decoder as it leaves it.
\* res: "ok" = Some(Ok(c)), "err" = Some(Err(())), "none" = None,
\* "panic" = an assertion failed (why names it).
Ret(d, res, c, why) == [d |-> d, res |-> res, c |-> c, why |-> why]

\* Variant: the assertion admits five pending bytes.
StateAccepted_off_by_one(buf_len) == buf_len <= 5

\* assert!(buf_len <= 4) of from_reader_state
StateAccepted(buf_len) == buf_len <= 4

\* Variant: the pending bytes of the saved state are dropped.
CharBuffer_from_reader_state_drop(buf_, buf_len, inner_) ==
    CharBuffer(inner_, buf_, 0, FALSE, FALSE)

\* CharBuffer::from_reader_state; the caller checks StateAccepted first.
CharBuffer_from_reader_state(buf_, buf_len, inner_) ==
    CharBuffer(inner_, buf_, buf_len, FALSE, FALSE)

\* CharBuffer::from_reader
CharBuffer_from_reader(inner_) ==
    CharBuffer_from_reader_state(ZeroBuf, 0, inner_)

\* Variant: next does not look at the failed flag.
Failed_ignored(d) == FALSE

\* The early returns of next: the sticky failure and the finished stream.
Failed(d) == d.err

Finished(d) == d.eof /\ d.bsz = 0

\* Variant: the fill loop is entered also after end-of-input.
NeedsFill_after_eof(d) == d.bsz < 4

\* Whether next enters the fill loop.
NeedsFill(d) == ~d.eof /\ d.bsz < 4

\* Last slot index (exclusive) of the fill loop `for i in olen .. 4`.
FillEnd == 4

RECURSIVE Fill_trusting(_, _)
\* Variant: any Ok(n) with n > 0 is taken for one byte read.
Fill_trusting(d, i) ==
    IF i >= FillEnd THEN [d |-> d, ret |-> FALSE]
    ELSE LET r == Read(d.inner)
             d1 == [d EXCEPT !.inner = r.src]
         IN  CASE r.out.k = "err" ->
                    [d |-> [d1 EXCEPT !.err = TRUE], ret |-> TRUE]
               [] r.out.k = "zero" ->
                    [d |-> [d1 EXCEPT !.eof = TRUE], ret |-> FALSE]
               [] OTHER ->
                    Fill_trusting([d1 EXCEPT !.buf[i + 1] = r.out.b,
                                             !.bsz = @ + 1], i + 1)

RECURSIVE Fill_resolve_on_error(_, _)
\* Variant: a failed read ends the fill like end-of-input does, and the
\* resolution runs on what is pending.
Fill_resolve_on_error(d, i) ==
    IF i >= FillEnd THEN [d |-> d, ret |-> FALSE]
    ELSE LET r == Read(d.inner)
             d1 == [d EXCEPT !.inner = r.src]
         IN  CASE r.out.k = "zero" ->
                    [d |-> [d1 EXCEPT !.eof = TRUE], ret |-> FALSE]
               [] r.out.k = "one" ->
                    Fill_resolve_on_error([d1 EXCEPT !.buf[i + 1] = r.out.b,
                                                     !.bsz = @ + 1], i + 1)
               [] OTHER ->
                    [d |-> [d1 EXCEPT !.err = TRUE], ret |-> FALSE]

RECURSIVE Fill_first_slot(_, _)
\* Variant: every read goes to slot 0 (`&mut self.buf[0 .. 1]`).
Fill_first_slot(d, i) ==
    IF i >= FillEnd THEN [d |-> d, ret |-> FALSE]
    ELSE LET r == Read(d.inner)
             d1 == [d EXCEPT !.inner = r.src]
         IN  CASE r.out.k = "err" ->
                    [d |-> [d1 EXCEPT !.err = TRUE], ret |-> TRUE]
               [] r.out.k = "zero" ->
                    [d |-> [d1 EXCEPT !.eof = TRUE], ret |-> FALSE]
               [] r.out.k = "one" ->
                    Fill_first_slot([d1 EXCEPT !.buf[1] = r.out.b,
                                               !.bsz = @ + 1], i + 1)
               [] OTHER ->
                    [d |-> [d1 EXCEPT !.err = TRUE], ret |-> TRUE]

\* Variant: the fill reads one byte and goes on to the resolution.
Fill_one_read(d, i) ==
    IF i >= FillEnd THEN [d |-> d, ret |-> FALSE]
    ELSE LET r == Read(d.inner)
             d1 == [d EXCEPT !.inner = r.src]
         IN  CASE r.out.k = "err" ->
                    [d |-> [d1 EXCEPT !.err = TRUE], ret |-> TRUE]
               [] r.out.k = "zero" ->
                    [d |-> [d1 EXCEPT !.eof = TRUE], ret |-> FALSE]
               [] r.out.k = "one" ->
                    [d |-> [d1 EXCEPT !.buf[i + 1] = r.out.b, !.bsz = @ + 1],
                     ret |-> FALSE]
               [] OTHER ->
                    [d |-> [d1 EXCEPT !.err = TRUE], ret |-> TRUE]

RECURSIVE Fill(_, _)
\* The fill loop from slot i on.  ret = TRUE when the loop returned
\* Some(Err(())) out of next.
Fill(d, i) ==
    IF i >= FillEnd THEN [d |-> d, ret |-> FALSE]
    ELSE LET r == Read(d.inner)
             d1 == [d EXCEPT !.inner = r.src]
         IN  CASE r.out.k = "err" ->
                    [d |-> [d1 EXCEPT !.err = TRUE], ret |-> TRUE]
               [] r.out.k = "zero" ->
                    [d |-> [d1 EXCEPT !.eof = TRUE], ret |-> FALSE]
               [] r.out.k = "one" ->
                    Fill([d1 EXCEPT !.buf[i + 1] = r.out.b, !.bsz = @ + 1],
                         i + 1)
               [] OTHER ->
                    [d |-> [d1 EXCEPT !.err = TRUE], ret |-> TRUE]

RECURSIVE Scan_whole_buffer(_, _, _)
\* Variant: the loop runs over the 4 slots instead of the pending bytes.
Scan_whole_buffer(b, len, i) ==
    IF i < 4
    THEN IF is_utf8_char_boundary(b[i + 1]) THEN i
         ELSE Scan_whole_buffer(b, len, i + 1)
    ELSE i

\* Variant: every pending byte is taken into the candidate.
Scan_to_end(b, len, i) == len

RECURSIVE Scan(_, _, _)
\* The while loop: from i, the first index < len holding a boundary byte,
\* else len.
Scan(b, len, i) ==
    IF i < len
    THEN IF is_utf8_char_boundary(b[i + 1]) THEN i ELSE Scan(b, len, i + 1)
    ELSE i

\* Variant: the bytes move down by one slot whatever i is.
Shift_one(b, i) ==
    [j \in 1..4 |-> IF j + 1 <= 4 THEN b[j + 1] ELSE b[j]]

\* Variant: the loop starts one slot late, so slot 0 keeps its byte.
Shift_late(b, i) ==
    [j \in 1..4 |-> IF j > 1 /\ j + i <= 4 THEN b[j + i] ELSE b[j]]

\* for j in i .. 4 { buf[j - i] = buf[j] }, in increasing j
Shift(b, i) ==
    [j \in 1..4 |-> IF j + i <= 4 THEN b[j + i] ELSE b[j]]

\* Variant: the emitted bytes are shifted out but bsz is not reduced.
Resolve_keep(d) ==
    IF ~(d.bsz <= 4) THEN Ret(d, "panic", 0, "bsz")
    ELSE
    LET len == d.bsz IN
    IF len = 0 THEN
        IF ~d.eof THEN Ret(d, "panic", 0, "eof") ELSE Ret(d, "none", 0, "")
    ELSE IF ~is_utf8_char_boundary(d.buf[1]) THEN
        Ret([d EXCEPT !.err = TRUE], "err", 0, "")
    ELSE
    Let(Scan(d.buf, len, 1), LAMBDA i :
    Let(SubSeq(d.buf, 1, i), LAMBDA s :
        IF ~from_utf8(s) THEN Ret([d EXCEPT !.err = TRUE], "err", 0, "")
        ELSE LET c == first_char(s) IN
             IF len_utf8(c) # i THEN Ret(d, "panic", c, "len_utf8")
             ELSE Ret([d EXCEPT !.buf = Shift(d.buf, i)], "ok", c, "")))

\* next from `assert!(self.bsz <= 4)` to its end
Resolve(d) ==
    IF ~(d.bsz <= 4) THEN Ret(d, "panic", 0, "bsz")
    ELSE
    LET len == d.bsz IN
    IF len = 0 THEN
        IF ~d.eof THEN Ret(d, "panic", 0, "eof") ELSE Ret(d, "none", 0, "")
    ELSE IF ~is_utf8_char_boundary(d.buf[1]) THEN
        Ret([d EXCEPT !.err = TRUE], "err", 0, "")
    ELSE
    Let(Scan(d.buf, len, 1), LAMBDA i :
    Let(SubSeq(d.buf, 1, i), LAMBDA s :
        IF ~from_utf8(s) THEN Ret([d EXCEPT !.err = TRUE], "err", 0, "")
        ELSE LET c == first_char(s) IN
             IF len_utf8(c) # i THEN Ret(d, "panic", c, "len_utf8")
             ELSE IF d.bsz < i THEN
                 Ret([d EXCEPT !.buf = Shift(d.buf, i)], "panic", c, "sub")
             ELSE Ret([d EXCEPT !.buf = Shift(d.buf, i), !.bsz = @ - i],
                      "ok", c, "")))

\* Variant: the end-of-input flag is not consulted before reading.
CharBuffer_next_refill(d) ==
    IF Failed(d) THEN Ret(d, "err", 0, "")
    ELSE IF d.bsz < 4 THEN
        Let(Fill(d, d.bsz), LAMBDA f :
        IF f.ret THEN Ret(f.d, "err", 0, "") ELSE Let(f.d, Resolve))
    ELSE Resolve(d)

\* Variant: the failed flag is only looked at after the fill.
CharBuffer_next_fill_first(d) ==
    IF Finished(d) THEN Ret(d, "none", 0, "")
    ELSE IF NeedsFill(d) THEN
        Let(Fill(d, d.bsz), LAMBDA f :
        IF f.ret \/ Failed(d) THEN Ret(f.d, "err", 0, "")
        ELSE Let(f.d, Resolve))
    ELSE IF Failed(d) THEN Ret(d, "err", 0, "")
    ELSE Resolve(d)

\* CharBuffer::next
CharBuffer_next(d) ==
    IF Failed(d) THEN Ret(d, "err", 0, "")
    ELSE IF Finished(d) THEN Ret(d, "none", 0, "")
    ELSE IF NeedsFill(d) THEN
        Let(Fill(d, d.bsz), LAMBDA f :
        IF f.ret THEN Ret(f.d, "err", 0, "") ELSE Let(f.d, Resolve))
    ELSE Resolve(d)

\* CharBuffer::into_reader_state (and into_inner): the tag and the tuple
CharBuffer_into_reader_state(d) ==
    [tag |-> IF d.err THEN "Err" ELSE "Ok",
     buf |-> d.buf, bsz |-> d.bsz, inner |-> d.inner]

-----------------------------------------------------------------------------
(* CharIndicesBuffer *)

CharIndicesBuffer(cb, off_) == [buf |-> cb, off |-> off_]

\* CharIndicesBuffer::from_reader_state
CharIndicesBuffer_from_reader_state(offset, buf_, buf_len, inner_) ==
    CharIndicesBuffer(CharBuffer_from_reader_state(buf_, buf_len, inner_),
                      offset)

\* CharIndicesBuffer::from_reader
CharIndicesBuffer_from_reader(inner_) ==
    CharIndicesBuffer_from_reader_state(0, ZeroBuf, 0, inner_)

\* Variant: the state is always tagged as a success.
CharIndicesBuffer_into_reader_state_untagged(x) ==
    [tag |-> "Ok",
     off |-> x.off, buf |-> x.buf.buf, bsz |-> x.buf.bsz,
     inner |-> x.buf.inner]

\* CharIndicesBuffer::into_reader_state (and into_inner)
CharIndicesBuffer_into_reader_state(x) ==
    [tag |-> IF x.buf.err THEN "Err" ELSE "Ok",
     off |-> x.off, buf |-> x.buf.buf, bsz |-> x.buf.bsz,
     inner |-> x.buf.inner]

\* A value returned by CharIndicesBuffer::next: "ok" = Some(Ok((off, c))),
\* "err" = Some(Err(off)), "none" = None.
Item(kind, off_, c) == [kind |-> kind, off |-> off_, c |-> c]

\* Variant: the offset counts scalars instead of bytes.
Advance_by_one(o, c) == o + 1

\* The offset after emitting c at offset o
Advance(o, c) == o + len_utf8(c)

\* CharIndicesBuffer::next
CharIndicesBuffer_next(x) ==
    Let(CharBuffer_next(x.buf), LAMBDA r :
    CASE r.res = "none" ->
            [x |-> [x EXCEPT !.buf = r.d], item |-> Item("none", 0, 0),
             why |-> ""]
      [] r.res = "err" ->
            [x |-> [x EXCEPT !.buf = r.d], item |-> Item("err", x.off, 0),
             why |-> ""]
      [] r.res = "ok" ->
            [x |-> [buf |-> r.d, off |-> Advance(x.off, r.c)],
             item |-> Item("ok", x.off, r.c), why |-> ""]
      [] OTHER ->
            [x |-> [x EXCEPT !.buf = r.d], item |-> Item("panic", x.off, 0),
             why |-> r.why])

-----------------------------------------------------------------------------
(* The state machine: a caller holding a source, a decoder or a state tuple *)

RECURSIVE SeqsUpTo(_, _)
\* All sequences over S of length at most n
SeqsUpTo(S, n) ==
    IF n = 0 THEN {<< >>}
    ELSE LET T == SeqsUpTo(S, n - 1)
         IN  T \cup {Append(t, x) : t \in {u \in T : Len(u) = n - 1}, x \in S}

RECURSIVE encode_all(_)
\* The UTF-8 bytes of a scalar sequence (String::from_iter(cs).into_bytes())
encode_all(cs) ==
    IF cs = << >> THEN << >> ELSE encode_utf8(Head(cs)) \o encode_all(Tail(cs))

\* A script delivering the bytes bs one per read
OnePerRead(bs) == [n \in 1..Len(bs) |-> OneByte(bs[n])]

\* The outcomes a read of the scripts of Spec can have
Outcomes == {OneByte(b) : b \in ByteSet} \cup {ReadErr, ReadZero}

\* The outcomes a read of the scripts of SpecState can have
OutcomesState == {OneByte(128), ReadErr, ReadMany}

FreshState == [tag |-> "Ok", off |-> 0, buf |-> ZeroBuf, bsz |-> 0]

NewSource == [pos |-> 1, reads |-> 0]

\* What holds initially whatever the caller starts from
InitCommon ==
    /\ inner = NewSource
    /\ buf = ZeroBuf
    /\ bsz = 0
    /\ eof = FALSE
    /\ err = FALSE
    /\ off = 0
    /\ results = << >>
    /\ born = 0
    /\ panic = ""

\* A caller holding a bare source with an arbitrary script
Init ==
    /\ input \in SeqsUpTo(Outcomes, MaxLen)
    /\ chars = << >>
    /\ phase = "src"
    /\ start = FreshState
    /\ saved = FreshState
    /\ InitCommon

\* A caller holding a bare source, or an arbitrary state tuple and a source
InitState ==
    /\ input \in SeqsUpTo(OutcomesState, MaxLenState)
    /\ chars = << >>
    /\ \/ phase = "src" /\ saved = FreshState
       \/ /\ phase = "state"
          /\ saved \in [tag : {"Ok"}, off : StartOffs,
                        buf : [1..4 -> ByteSetState], bsz : 0..5]
    /\ start = saved
    /\ InitCommon

\* A caller holding a source that delivers the encoding of a scalar sequence
InitRT ==
    /\ chars \in SeqsUpTo(ScalarSet, MaxChars)
    /\ input = OnePerRead(encode_all(chars))
    /\ phase = "src"
    /\ start = FreshState
    /\ saved = FreshState
    /\ InitCommon

\* The decoder held in the variables
Self == CharIndicesBuffer(CharBuffer(inner, buf, bsz, eof, err), off)

\* The variables become the decoder x
Becomes(x) ==
    /\ inner' = x.buf.inner
    /\ buf' = x.buf.buf
    /\ bsz' = x.buf.bsz
    /\ eof' = x.buf.eof
    /\ err' = x.buf.err
    /\ off' = x.off

\* CharIndicesBuffer::from_reader(inner)
FromReader ==
    /\ phase = "src"
    /\ Becomes(CharIndicesBuffer_from_reader(inner))
    /\ phase' = "live"
    /\ born' = Len(results)
    /\ UNCHANGED <<input, chars, start, saved, results, panic>>

\* CharIndicesBuffer::from_reader_state(saved.off, saved.buf, saved.bsz, inner)
FromReaderState ==
    /\ phase = "state"
    /\ IF StateAccepted(saved.bsz)
       THEN /\ Becomes(CharIndicesBuffer_from_reader_state(
                           saved.off, saved.buf, saved.bsz, inner))
            /\ phase' = "live"
            /\ born' = Len(results)
            /\ UNCHANGED panic
       ELSE /\ phase' = "panicked"
            /\ panic' = "buf_len"
            /\ UNCHANGED <<inner, buf, bsz, eof, err, off, born>>
    /\ UNCHANGED <<input, chars, start, saved, results>>

\* The decoder as a call of next finds it: the source starts counting the
\* reads of this call.
Called == [Self EXCEPT !.buf.inner.reads = 0]

\* CharIndicesBuffer::next
NextItem ==
    /\ phase = "live"
    /\ Len(results) < MaxCalls
    /\ \E r \in {Let(Called, CharIndicesBuffer_next)} :
       /\ Becomes(r.x)
       /\ results' = Append(results, r.item)
       /\ panic' = r.why
       /\ phase' = IF r.item.kind = "panic" THEN "panicked" ELSE "live"
    /\ UNCHANGED <<input, chars, start, saved, born>>

\* CharIndicesBuffer::into_reader_state / into_inner: the decoder is consumed
IntoReaderState ==
    /\ phase = "live"
    /\ LET t == CharIndicesBuffer_into_reader_state(Self) IN
       /\ saved' = [tag |-> t.tag, off |-> t.off, buf |-> t.buf, bsz |-> t.bsz]
       /\ inner' = t.inner
    /\ phase' = "state"
    /\ buf' = ZeroBuf
    /\ bsz' = 0
    /\ eof' = FALSE
    /\ err' = FALSE
    /\ off' = 0
    /\ UNCHANGED <<input, chars, start, results, born, panic>>

Next ==
    \/ FromReader
    \/ FromReaderState
    \/ NextItem
    \/ IntoReaderState

Spec == Init /\ [][Next]_vars

SpecState == InitState /\ [][Next]_vars

SpecRT == InitRT /\ [][Next]_vars

TypeOK ==
    /\ phase \in {"src", "state", "live", "panicked"}
    /\ bsz \in 0..255
    /\ eof \in BOOLEAN
    /\ err \in BOOLEAN
    /\ Len(buf) = 4
    /\ off \in Nat

-----------------------------------------------------------------------------
(* Vocabulary of the properties *)

\* The results of the current decoder instance are results[born + 1 ..]
Mine == (born + 1)..Len(results)

\* The script only delivers bytes, one per read, then end-of-input for ever
BytesOnly(script) == \A n \in 1..Len(script) : script[n].k = "one"

\* The bytes a script delivers
BytesOf(script) == [n \in 1..Len(script) |-> script[n].b]

RECURSIVE EncodedLen(_)
\* Summed encoded byte-length of a scalar sequence
EncodedLen(cs) ==
    IF cs = << >> THEN 0 ELSE Len(encode_utf8(Head(cs))) + EncodedLen(Tail(cs))

\* The scalars emitted by the first n results, in order
Emitted(n) ==
    LET ok == SelectSeq(SubSeq(results, 1, n), LAMBDA r : r.kind = "ok")
    IN  [k \in 1..Len(ok) |-> ok[k].c]

RECURSIVE Run(_, _)
\* The values n consecutive next calls on decoder x return
Run(x, n) ==
    IF n = 0 THEN << >>
    ELSE LET r == CharIndicesBuffer_next(x)
         IN  <<r.item>> \o Run(r.x, n - 1)

\* The decoder first constructed, polled without interruption
Uninterrupted ==
    Run(CharIndicesBuffer_from_reader_state(start.off, start.buf, start.bsz,
                                            NewSource),
        Len(results))

-----------------------------------------------------------------------------
(* C1  Round trip *)

\* What the n-th call must return for the scalar sequence cs
RoundTripItem(cs, n) ==
    IF n <= Len(cs)
    THEN Item("ok", EncodedLen(SubSeq(cs, 1, n - 1)), cs[n])
    ELSE Item("none", 0, 0)

\* C1: when the source delivers the UTF-8 encoding of a scalar sequence one
\* byte per read, the calls return exactly those scalars in order, each with
\* the summed encoded length of the scalars before it, then stream-exhausted,
\* and never a failure.
C1_RoundTrip ==
    \A n \in 1..Len(results) : results[n] = RoundTripItem(chars, n)

\* A fresh decoder polled without interruption has returned three scalars,
\* one of them four bytes long and one two, and then stream-exhausted.
C1_Witness ==
    /\ phase = "live"
    /\ born = 0
    /\ Len(chars) = 3
    /\ \E n \in 1..3 : chars[n] >= 65536
    /\ \E n \in 1..3 : chars[n] >= 128 /\ chars[n] < 2048
    /\ Len(results) = 4
    /\ results[4].kind = "none"

-----------------------------------------------------------------------------
(* C2  Resumability *)

-----------------------------------------------------------------------------
(* C3  Sticky failure *)

\* C3: once a call on a decoder instance has returned failure, every later
\* call on that instance returns failure.
C3_Sticky ==
    \A i \in Mine : \A j \in Mine :
        (i < j /\ results[i].kind = "err") => results[j].kind = "err"

\* A failed decoder was polled again while a boundary byte was buffered
\* behind the bad one and bytes were left in the source.
C3_Witness ==
    /\ phase = "live"
    /\ err
    /\ Len(results) >= born + 2
    /\ results[Len(results) - 1].kind = "err"
    /\ bsz >= 2
    /\ \E j \in 2..bsz : buf[j] = 65
    /\ inner.pos <= Len(input)
    /\ input[inner.pos].k = "one"

-----------------------------------------------------------------------------
(* C4  A failed decoder leaves the source and its state alone *)

\* C4: a next call on a failed decoder issues no read and leaves the pending
\* bytes, pending length, end-of-input flag and offset unchanged.
C4_FailedFrame ==
    [][(phase = "live" /\ err /\ results' # results)
          => /\ inner'.pos = inner.pos
             /\ inner'.reads = 0
             /\ buf' = buf
             /\ bsz' = bsz
             /\ eof' = eof
             /\ off' = off]_vars

\* A decoder that failed on a read error with two bytes pending and input
\* left in the source was polled twice more.
C4_Witness ==
    /\ phase = "live"
    /\ err
    /\ ~eof
    /\ bsz = 2
    /\ Len(results) >= born + 3
    /\ inner.pos <= Len(input)

-----------------------------------------------------------------------------
(* C5  Fixed memory bound *)

\* C5: a live decoder has 0 <= bsz <= 4; neither `assert!(self.bsz <= 4)` nor
\* the subtraction `self.bsz -= i` ever fails; a state tuple with pending
\* length above 4 never becomes a decoder: its construction panics.
C5_Bound ==
    /\ phase = "live" => (bsz >= 0 /\ bsz <= 4)
    /\ panic # "bsz"
    /\ panic # "sub"
    /\ saved.bsz > 4 => phase # "live"
    /\ (phase = "panicked" /\ saved.bsz > 4) => panic = "buf_len"

\* A decoder built from a saved state with four pending bytes emitted two
\* scalars, having topped its buffer up to four bytes again in between.
C5_Witness ==
    /\ phase = "live"
    /\ start.bsz = 4
    /\ bsz = 3
    /\ inner.pos = 2
    /\ Len(Emitted(Len(results))) = 2

-----------------------------------------------------------------------------
(* C6  Failure after the longest well-formed prefix *)

RECURSIVE WellFormedPrefix(_)
\* The scalars of the longest well-formed UTF-8 prefix of the bytes bs
WellFormedPrefix(bs) ==
    IF bs = << >> THEN << >>
    ELSE LET n == ValidHead(bs) IN
         IF n = 0 THEN << >>
         ELSE <<first_char(SubSeq(bs, 1, n))>>
                  \o WellFormedPrefix(SubSeq(bs, n + 1, Len(bs)))

\* What the n-th call must return when the stream bs is malformed
PrefixItem(bs, n) ==
    LET cs == WellFormedPrefix(bs) IN
    IF n <= Len(cs)
    THEN Item("ok", EncodedLen(SubSeq(cs, 1, n - 1)), cs[n])
    ELSE Item("err", EncodedLen(cs), 0)

\* C6: over a byte stream that is not entirely well-formed, a fresh decoder
\* yields every scalar of the longest well-formed prefix with its offset and
\* then reports failure at the length in bytes of that prefix.
C6_PrefixThenFailure ==
    (BytesOnly(input) /\ ~from_utf8(BytesOf(input)) /\ born = 0)
        => \A n \in 1..Len(results) : results[n] = PrefixItem(BytesOf(input), n)

-----------------------------------------------------------------------------
(* C7  Offset bookkeeping *)

\* The offset after the first n results
OffsetAfter(n) == start.off + EncodedLen(Emitted(n))

-----------------------------------------------------------------------------
(* C8  The five error kinds *)

\* Most reads the coming call of next can issue
Avail == IF eof \/ bsz >= 4 THEN 0 ELSE 4 - bsz

\* The outcome of the k-th read of the coming call
Upcoming(k) ==
    IF inner.pos + k - 1 <= Len(input) THEN input[inner.pos + k - 1]
    ELSE ReadZero

\* The reads of the coming call that do not deliver one byte
Stops == {k \in 1..Avail : Upcoming(k).k # "one"}

\* The read that ends the fill early, 0 if there is none
Stop == IF Stops = {} THEN 0 ELSE CHOOSE k \in Stops : \A m \in Stops : k <= m

ReadFailure == Stop # 0 /\ Upcoming(Stop).k = "err"

ProtocolViolation == Stop # 0 /\ Upcoming(Stop).k = "many"

\* The pending bytes once the fill has ended without a fault
Filled ==
    LET m == IF Stop = 0 THEN Avail ELSE Stop - 1
    IN  SubSeq(buf, 1, bsz) \o [k \in 1..m |-> Upcoming(k).b]

\* End-of-input is known once the fill has ended
AtEnd == eof \/ (Stop # 0 /\ Upcoming(Stop).k = "zero")

\* The lead byte of p with the continuation bytes that directly follow it
Candidate(p) ==
    LET ks == {k \in 1..Len(p) : \A j \in 2..k : p[j] >= 128 /\ p[j] <= 191}
    IN  SubSeq(p, 1, CHOOSE k \in ks : \A m \in ks : m <= k)

\* The number of bytes the lead byte x announces, 0 if x is no lead byte
Announced(x) ==
    IF x < 128 THEN 1
    ELSE IF x >= 192 /\ x < 224 THEN 2
    ELSE IF x >= 224 /\ x < 240 THEN 3
    ELSE IF x >= 240 /\ x < 248 THEN 4
    ELSE 0

\* s is the UTF-8 encoding of exactly one Unicode scalar value: it has the
\* announced length and is what its value encodes to (so it is not overlong,
\* not a surrogate and not above U+10FFFF).
OneScalar(s) ==
    /\ Announced(s[1]) = Len(s)
    /\ LET c == first_char(s) IN
       /\ c <= 1114111
       /\ ~(c >= 55296 /\ c <= 57343)
       /\ encode_utf8(c) = s

ContinuationFirst == Filled # << >> /\ Filled[1] >= 128 /\ Filled[1] <= 191

MalformedCandidate ==
    Filled # << >> /\ ~ContinuationFirst /\ ~OneScalar(Candidate(Filled))

\* An incomplete multi-byte prefix is all that is left at end-of-input
TruncatedAtEnd ==
    /\ AtEnd
    /\ Filled # << >>
    /\ Candidate(Filled) = Filled
    /\ Len(Filled) < Announced(Filled[1])

\* The coming call of next meets one of the five error kinds
Detects ==
    \/ ReadFailure
    \/ ProtocolViolation
    \/ /\ Stop = 0 \/ Upcoming(Stop).k = "zero"
       /\ ContinuationFirst \/ MalformedCandidate \/ TruncatedAtEnd

\* C8: a call of next that meets a read failure, a read of more than one
\* byte, a continuation byte first, a candidate that is not one well-formed
\* scalar, or an incomplete prefix at end-of-input returns failure and leaves
\* the decoder failed; a failed decoder stays failed and returns failure.
C8_ErrorKinds ==
    [][(phase = "live" /\ results' # results /\ (err \/ Detects))
          => /\ results'[Len(results')].kind = "err"
             /\ err'
             /\ phase' = "live"]_vars

\* A decoder failed on the overlong candidate F0 80 80 80 and was polled
\* again.
C8_Witness ==
    /\ phase = "live"
    /\ err
    /\ bsz = 4
    /\ buf = <<240, 128, 128, 128>>
    /\ Len(results) >= born + 2
    /\ results[Len(results)].kind = "err"

-----------------------------------------------------------------------------
(* C9  Extracting the state *)

\* C9: into_reader_state returns the offset, buffer, pending length and
\* source of the decoder as they are, tagged Err exactly when the failed
\* flag is set, that is when a call of next on it has returned failure.
C9_Extract ==
    [][(phase = "live" /\ phase' = "state")
          => /\ saved' = [tag |-> IF err THEN "Err" ELSE "Ok",
                          off |-> off, buf |-> buf, bsz |-> bsz]
             /\ inner' = inner
             /\ saved'.tag = "Err" <=> \E i \in Mine : results[i].kind = "err"
      ]_vars

\* The state of a decoder that emitted a scalar and then failed with pending
\* bytes was extracted.
C9_Witness ==
    /\ phase = "state"
    /\ saved.tag = "Err"
    /\ saved.bsz >= 2
    /\ saved.off > start.off
    /\ Len(results) >= 2

-----------------------------------------------------------------------------
(* C10  Stream completion is terminal *)

\* C10: once end-of-input is set and nothing is pending, every call of next
\* returns stream-exhausted, reads nothing and changes nothing, so that the
\* decoder neither fails nor emits afterwards.
C10_Terminal ==
    /\ [][(phase = "live" /\ eof /\ bsz = 0 /\ ~err /\ results' # results)
             => /\ results' = Append(results, Item("none", 0, 0))
                /\ inner'.pos = inner.pos
                /\ inner'.reads = 0
                /\ UNCHANGED <<buf, bsz, eof, err, off, phase>>]_vars
    /\ [](\A i \in Mine : \A j \in Mine :
             (i < j /\ results[i].kind = "none") => results[j].kind = "none")

\* A decoder whose source reported end-of-input early, with bytes to follow,
\* has returned stream-exhausted twice.
C10_Witness ==
    /\ phase = "live"
    /\ eof /\ bsz = 0 /\ ~err
    /\ Len(results) >= born + 2
    /\ results[Len(results)].kind = "none"
    /\ results[Len(results) - 1].kind = "none"
    /\ inner.pos <= Len(input)
    /\ input[inner.pos].k = "one"

-----------------------------------------------------------------------------
(* C11  The fill contract *)

\* The reads the coming call of next issues
ReadsDue ==
    IF err \/ eof \/ bsz >= 4 THEN 0
    ELSE IF Stop = 0 THEN Avail ELSE Stop

\* The value the latest call of next returned
Last(rs) == rs[Len(rs)]

\* The encoded length of the scalar an item carries, 0 if it carries none
Taken(item) == IF item.kind = "ok" THEN Len(encode_utf8(item.c)) ELSE 0

\* C11: a call of next reads only when the decoder is not failed,
\* end-of-input is not set and fewer than 4 bytes are pending; it reads one
\* byte at a time into the slots right after the pending bytes, counting each
\* in bsz, until 4 bytes are pending, a read returns 0 bytes (eof is set) or
\* a read fails (err is set, no further read); so a call issues 0 to 4 reads
\* and none once eof is set.
C11_Fill ==
    /\ [][(phase = "live" /\ results' # results)
            => /\ inner'.reads = ReadsDue
               /\ ReadsDue >= 0 /\ ReadsDue <= 4
               /\ (err \/ eof \/ bsz >= 4) => inner'.pos = inner.pos
               /\ inner'.pos = IF inner.pos + ReadsDue <= Len(input) + 1
                               THEN inner.pos + ReadsDue ELSE Len(input) + 1
               /\ ~err =>
                    /\ eof' = (eof \/ (Stop # 0 /\ Upcoming(Stop).k = "zero"))
                    /\ (Stop # 0 /\ Upcoming(Stop).k \in {"err", "many"})
                           => (err' /\ Last(results').kind = "err")
                    /\ bsz' = Len(Filled) - Taken(Last(results'))
                    /\ SubSeq(buf', 1, bsz')
                           = SubSeq(Filled, Taken(Last(results')) + 1,
                                    Len(Filled))
          ]_vars
    /\ [](inner.reads >= 0 /\ inner.reads <= 4)

\* A call of next read the two bytes of a scalar, was told end-of-input by
\* its third read and emitted the scalar; bytes follow in the source.
C11_Witness ==
    /\ phase = "live"
    /\ eof /\ ~err
    /\ inner.reads = 3
    /\ bsz = 0
    /\ Len(results) >= 1
    /\ Last(results).kind = "ok"
    /\ Last(results).c >= 128
    /\ inner.pos <= Len(input)

-----------------------------------------------------------------------------
(* C12  Boundary detection exactness *)

\* A fresh decoder over a source that delivers 'A' and then any one byte
InitByte ==
    /\ input \in {<<OneByte(65), OneByte(b)>> : b \in 0..255}
    /\ chars = << >>
    /\ phase = "src"
    /\ start = FreshState
    /\ saved = FreshState
    /\ InitCommon

SpecByte == InitByte /\ [][Next]_vars

\* The two high bits of b are not 10
NotContinuationBits(b) == (b \div 64) % 4 # 2

\* C12: for every byte value 0..255 is_utf8_char_boundary is true exactly
\* when the value is < 0x80 or >= 0xC0, that is when its two high bits are
\* not 10; so the byte after 'A' ends the candidate, and 'A' is emitted,
\* exactly for those values.
C12_Boundary ==
    /\ \A b \in 0..255 :
          /\ is_utf8_char_boundary(b) <=> (b < 128 \/ b >= 192)
          /\ is_utf8_char_boundary(b) <=> NotContinuationBits(b)
    /\ Len(results) >= 1
          => (results[1].kind = "ok" <=> (input[2].b < 128 \/ input[2].b >= 192))

\* 'A' was emitted in front of the byte 0xC0, the least lead-byte value.
C12_Witness ==
    /\ Len(results) >= 1
    /\ input[2].b = 192
    /\ results[1] = Item("ok", 0, 65)

-----------------------------------------------------------------------------
(* C13  No premature resolution *)

\* The coming call of next gets past the fill without returning failure
PassesFill == ~err /\ ~ReadFailure /\ ~ProtocolViolation

\* C13: when a call of next gets past the fill without returning failure,
\* 4 bytes are pending or end-of-input is set (bsz as the resolution found it
\* is bsz afterwards plus the bytes of the scalar taken); `assert!(self.eof)`
\* does not fail; so no failure is reported for a scalar whose bytes are
\* still arriving.
C13_NoPremature ==
    /\ [][(phase = "live" /\ results' # results /\ PassesFill)
            => /\ eof' \/ bsz' + Taken(Last(results')) = 4
               /\ (bsz' + Taken(Last(results')) = 0) => eof'
               /\ Last(results').kind = "none" => eof'
          ]_vars
    /\ [](panic # "eof")

\* The first call on a fresh decoder emitted a two-byte scalar whose bytes
\* came one per read, with four bytes read and the source not at its end.
C13_Witness ==
    /\ phase = "live"
    /\ born = 0
    /\ Len(results) = 1
    /\ results[1].kind = "ok"
    /\ results[1].c >= 128 /\ results[1].c < 2048
    /\ ~eof
    /\ bsz = 2
    /\ inner.reads = 4

-----------------------------------------------------------------------------
(* C14  Candidate length *)

\* The buffer as the resolution of the coming call finds it: the pending
\* bytes after the fill, and v in the slots behind them
FilledBuf(v) == [j \in 1..4 |-> IF j <= Len(Filled) THEN Filled[j] ELSE v[j]]

\* The coming call of next gets to the scan
ReachesScan ==
    phase = "live" /\ PassesFill /\ Filled # << >> /\ ~ContinuationFirst

\* C14: with a boundary byte first, the candidate length i is 1 plus the
\* number of continuation bytes that directly follow it among the pending
\* bytes; 1 <= i <= bsz; the bytes in slots at or beyond bsz do not matter;
\* a boundary byte that follows is not part of the candidate; an emitted
\* scalar takes exactly the candidate.
C14_Candidate ==
    /\ [](ReachesScan =>
            LET n == Len(Filled)
                i == Scan(FilledBuf(buf), n, 1)
            IN  /\ i = Len(Candidate(Filled))
                /\ i >= 1 /\ i <= n
                /\ \A j \in 2..i : Filled[j] >= 128 /\ Filled[j] <= 191
                /\ i < n => (Filled[i + 1] < 128 \/ Filled[i + 1] >= 192)
                /\ Scan(FilledBuf(<<128, 128, 128, 128>>), n, 1) = i
                /\ Scan(FilledBuf(<<65, 65, 65, 65>>), n, 1) = i)
    /\ [][(ReachesScan /\ results' # results /\ Last(results').kind = "ok")
            => Taken(Last(results')) = Len(Candidate(Filled))]_vars

\* A decoder failed on the lead byte 0xF0 followed by 'A': its candidate was
\* the single byte 0xF0.
C14_Witness ==
    /\ phase = "live"
    /\ err
    /\ bsz >= 2
    /\ buf[1] = 240
    /\ buf[2] = 65
    /\ Len(results) = born + 1
    /\ Last(results).kind = "err"

-----------------------------------------------------------------------------
(* C15  One scalar of the candidate's length, and the shift *)

\* C15: a candidate that from_utf8 accepts is the encoding of exactly one
\* scalar, of the candidate's length, so `assert_eq!(c.len_utf8(), i)` does
\* not fail; an emitted scalar is that scalar, its bytes are removed, the
\* remaining pending bytes move to the start of the buffer in their order and
\* bsz decreases by the candidate's length.
C15_OneScalar ==
    /\ [](panic # "len_utf8")
    /\ []((ReachesScan /\ from_utf8(Candidate(Filled))) =>
            LET s == Candidate(Filled) IN
            /\ ValidHead(s) = Len(s)
            /\ len_utf8(first_char(s)) = Len(s)
            /\ OneScalar(s))
    /\ [][(phase = "live" /\ results' # results /\ Last(results').kind = "ok")
            => LET i == Len(Candidate(Filled)) IN
               /\ ReachesScan
               /\ encode_utf8(Last(results').c) = Candidate(Filled)
               /\ bsz' = Len(Filled) - i
               /\ \A j \in 1..bsz' : buf'[j] = Filled[j + i]
          ]_vars

\* A two-byte scalar was emitted from a buffer of four bytes and the two
\* bytes of an unfinished four-byte scalar moved to the start.
C15_Witness ==
    /\ phase = "live"
    /\ Len(results) = 1
    /\ results[1].kind = "ok"
    /\ results[1].c >= 128 /\ results[1].c < 2048
    /\ bsz = 2
    /\ SubSeq(buf, 1, 2) = <<241, 128>>

-----------------------------------------------------------------------------
(* C16  Byte conservation *)

\* The bytes the source has delivered so far
Delivered ==
    LET got == SelectSeq(SubSeq(input, 1, inner.pos - 1),
                         LAMBDA o : o.k = "one")
    IN  [n \in 1..Len(got) |-> got[n].b]

\* The pending bytes: of the decoder, or of the state tuple extracted from it
Pending ==
    IF phase = "state" THEN SubSeq(saved.buf, 1, saved.bsz)
    ELSE SubSeq(buf, 1, bsz)

\* C16: the encodings of the scalars emitted so far followed by the pending
\* bytes are the pending bytes the first decoder was constructed with
\* followed by the bytes the source has delivered, whether the decoder is
\* running, failed, exhausted or extracted.
C16_Conservation ==
    (phase \in {"live", "state"} /\ start.bsz <= 4)
        => encode_all(Emitted(Len(results))) \o Pending
               = SubSeq(start.buf, 1, start.bsz) \o Delivered

\* The state of a failed decoder was extracted; it was constructed with
\* pending bytes, emitted scalars, was delivered a byte and still held bytes.
C16_Witness ==
    /\ phase = "state"
    /\ saved.tag = "Err"
    /\ start.bsz >= 2
    /\ Len(Delivered) = 1
    /\ Len(Emitted(Len(results))) >= 2
    /\ saved.bsz >= 2

-----------------------------------------------------------------------------
(* C17  A read fault pre-empts buffered scalars *)

\* A caller holding a bare source or a state tuple with fewer than 4 pending
\* bytes, and a source that delivers some bytes and then fails a read or
\* returns more than one byte
InitFault ==
    /\ input \in {pre \o <<f>> :
                     pre \in SeqsUpTo({OneByte(65), OneByte(128)}, MaxPre),
                     f \in {ReadErr, ReadMany}}
    /\ chars = << >>
    /\ \/ phase = "src" /\ saved = FreshState
       \/ /\ phase = "state"
          /\ saved \in [tag : {"Ok"}, off : StartOffs,
                        buf : [1..4 -> ByteSetFault], bsz : 0..3]
    /\ start = saved
    /\ InitCommon

SpecFault == InitFault /\ [][Next]_vars

\* C17: a call of next whose fill meets a failed read or a read of more than
\* one byte returns failure at the offset of the first pending byte, whatever
\* scalars are complete in the buffer; the bytes read before the fault stay
\* counted in the pending buffer; afterwards the instance emits nothing.
C17_FaultFirst ==
    /\ [][(phase = "live" /\ results' # results /\ ~err
                /\ (ReadFailure \/ ProtocolViolation))
            => /\ Last(results') = Item("err", off, 0)
               /\ err'
               /\ off' = off
               /\ eof' = eof
               /\ bsz' = bsz + Stop - 1
               /\ SubSeq(buf', 1, bsz') = Filled
          ]_vars
    /\ [][(phase = "live" /\ results' # results /\ err)
            => /\ Last(results') = Item("err", off, 0)
               /\ bsz' = bsz
               /\ buf' = buf
          ]_vars

\* A decoder built at offset 3 with a complete two-byte scalar pending read
\* 'A', met the fault, and reported failure at offset 3 twice, the three
\* bytes still pending.
C17_Witness ==
    /\ phase = "live"
    /\ err
    /\ start.bsz = 2
    /\ born = 0
    /\ results = <<Item("err", 3, 0), Item("err", 3, 0)>>
    /\ bsz = 3
    /\ SubSeq(buf, 1, 3) = <<194, 128, 65>>
    /\ inner.pos = 3

-----------------------------------------------------------------------------
(* C18  Stale buffer slots are never observed *)

\* A caller that constructs a decoder and polls it, never extracting
NextPoll ==
    \/ FromReader
    \/ FromReaderState
    \/ NextItem

\* Decoders built fresh or from arbitrary state tuples, and polled
SpecStale == InitState /\ [][NextPoll]_vars

\* What a caller can tell of a decoder: everything but the slots behind bsz
Visible(x) ==
    [off |-> x.off, bsz |-> x.buf.bsz, eof |-> x.buf.eof, err |-> x.buf.err,
     inner |-> x.buf.inner, bytes |-> SubSeq(x.buf.buf, 1, x.buf.bsz)]

\* Bytes tried in the slots behind bsz: ASCII, continuation, lead
StaleSet == {65, 128, 240}

\* The decoder of the variables with v in the slots behind bsz
WithStale(v) ==
    [Called EXCEPT !.buf.buf = [j \in 1..4 |-> IF j <= bsz THEN buf[j]
                                                ELSE v[j]]]

\* C18: decoders that differ only in the slots behind bsz return the same
\* value from next and agree afterwards on offset, bsz, flags, source and
\* pending bytes - so that they still differ at most in the slots behind bsz
\* and, call after call, return the same sequence.
C18_StaleUnobserved ==
    phase = "live" =>
        \A v \in [(bsz + 1)..4 -> StaleSet] :
            LET r == CharIndicesBuffer_next(Called)
                q == CharIndicesBuffer_next(WithStale(v))
            IN  /\ q.item = r.item
                /\ q.why = r.why
                /\ Visible(q.x) = Visible(r.x)

\* A decoder built with 'A' pending and continuation bytes in the slots
\* behind it emitted 'A' at end-of-input.
C18_Witness ==
    /\ phase = "live"
    /\ start.bsz = 1
    /\ start.buf = <<65, 128, 128, 128>>
    /\ Len(input) = 0
    /\ results = <<Item("ok", 3, 65)>>
    /\ bsz = 0
    /\ buf[1] = 128

-----------------------------------------------------------------------------
(* C19  Termination *)

\* A caller that constructs a fresh decoder and polls it
NextFresh ==
    \/ FromReader
    \/ NextItem

\* The caller keeps polling: its next step is taken whenever there is one
SpecPoll == Init /\ [][NextFresh]_vars /\ WF_vars(NextFresh)

\* Some call has returned stream-exhausted or failure
Ended == \E n \in 1..Len(results) : results[n].kind \in {"none", "err"}

\* C19: over a finite source a decoder that is polled eventually returns
\* stream-exhausted or failure; a call that emits a scalar removes 1 to 4
\* bytes from the pending buffer, so no more scalars are emitted than bytes
\* were supplied; no call issues more than 4 reads.
C19_Terminates ==
    /\ <>Ended
    /\ [](Len(Emitted(Len(results))) <= start.bsz + Len(Delivered))
    /\ [](inner.reads <= 4)
    /\ [][(phase = "live" /\ results' # results /\ Last(results').kind = "ok")
            => /\ Len(Filled) - bsz' >= 1
               /\ Len(Filled) - bsz' <= 4
               /\ ~Ended
          ]_vars

\* Four scalars were emitted from a source of four bytes and the fifth call
\* returned stream-exhausted.
C19_Witness ==
    /\ phase = "live"
    /\ Len(input) = 4
    /\ Len(results) = 5
    /\ \A n \in 1..4 : results[n].kind = "ok"
    /\ results[5].kind = "none"

====
